---- MODULE Spec2Model ----
(***************************************************************************)
(* Model of the symbol patching engine of pensieve:                        *)
(*   elf_shenanigans.cpp  the global patch driver (overwrite_symbols,      *)
(*                        restore_symbols, phdrs_callback, patch_symbol)   *)
(*   hooks.cpp            the hook catalog and the intercept trampolines   *)
(***************************************************************************)
EXTENDS Integers, Sequences, FiniteSets, TLC

VARIABLES
    loaded,       \* the loaded modules, in dl_iterate_phdr enumeration order
    patched,      \* static std::set<std::string> patched (phdrs_callback)
    log_warning,  \* TRUE when the last sweep logged a LOG(WARNING) in patch_symbol
    last_op,      \* history: the last driver operations, newest last
    pre_patch,    \* history: the modules as they were when the last overwrite_symbols() began
    pc,           \* per thread: where it is in the trampoline it runs
    frame,        \* per thread: the trampoline call in progress
    heap,         \* the addresses the real allocator and mapper have handed out
    owned,        \* the addresses the application holds and may release
    hist,         \* history: real calls and sink calls of all threads, in order
    ncalls,       \* number of trampoline calls started
    query         \* the symbol lookup in progress: the enumeration and its symbol_query

driver_vars == <<loaded, patched, log_warning, last_op, pre_patch>>

thread_vars == <<pc, frame, heap, owned, hist, ncalls>>

finder_vars == <<query>>

vars == <<loaded, patched, log_warning, last_op, pre_patch,
          pc, frame, heap, owned, hist, ncalls, query>>

----------------------------------------------------------------------------
(* Bounds of the model *)

\* at most this many modules are loaded at the same time
MaxLoaded == 3
\* the per-module patch counter saturates here
MaxCount == 3

----------------------------------------------------------------------------
(* hooks.cpp: the hook catalog *)

\* the 14 hooks, in the order of the TRY_HOOK chain
HookNames ==
    << "malloc", "free", "calloc", "realloc", "posix_memalign", "memalign",
       "valloc", "pvalloc", "dlopen", "dlclose", "mmap", "mmap64", "munmap",
       "PyGILState_Ensure" >>

Catalog == { HookNames[i] : i \in DOMAIN HookNames }

\* the address of the genuine implementation of a symbol (&::malloc, ...)
real_fn(sym) == [k |-> "real", f |-> sym]

\* the address of the trampoline pensieve::intercept::<name>
intercept_fn(name) == [k |-> "intercept", f |-> name]

\* an address a slot can hold before any patching that is neither of the two:
\* the lazy-binding stub of the slot, or another definition that interposes
plt_stub(sym) == [k |-> "plt", f |-> sym]

\* SymbolHook<...> name(symbol, &::symbol)
SymbolHook(name) == [d_symbol |-> name, d_original |-> real_fn(name)]

----------------------------------------------------------------------------
(* elf_shenanigans.cpp *)

\* strstr(haystack, needle) != NULL
strstr(haystack, needle) ==
    \E i \in 1..(Len(haystack) - Len(needle) + 1) :
        SubSeq(haystack, i, i + Len(needle) - 1) = needle

\* unprotect_page(addr) < 0: the return value of mprotect is the input rc
unprotect_page(rc) == rc

\* a patch_symbol that writes the trampoline in both directions
patch_symbol_ignores_restore(hook, intercept, rc, restore_original) ==
    [ slot |-> intercept, warn |-> unprotect_page(rc) < 0 ]

\* patch_symbol: the value written to the slot; the write happens whatever
\* unprotect_page returned
patch_symbol(hook, intercept, rc, restore_original) ==
    [ slot |-> IF restore_original THEN hook.d_original ELSE intercept,
      warn |-> unprotect_page(rc) < 0 ]

\* the TRY_HOOK chain of overwrite_elf_table for one relocation entry, from
\* the i-th hook on: the first hook whose d_symbol equals symname patches the
\* slot; an entry that matches no hook is left alone
RECURSIVE TRY_HOOK(_, _, _, _)
TRY_HOOK(i, relocation, rc, restore_original) ==
    IF i > Len(HookNames)
    THEN [slot |-> relocation.slot, warn |-> FALSE]
    ELSE IF SymbolHook(HookNames[i]).d_symbol = relocation.symname
         THEN patch_symbol(SymbolHook(HookNames[i]), intercept_fn(HookNames[i]),
                           rc, restore_original)
         ELSE TRY_HOOK(i + 1, relocation, rc, restore_original)

\* strncmp(d_symbol, symname, strlen(d_symbol)) == 0
is_prefix_of(d_symbol, symname) ==
    /\ Len(d_symbol) <= Len(symname)
    /\ SubSeq(symname, 1, Len(d_symbol)) = d_symbol

\* an overwrite_elf_table whose chain compares only the first strlen(d_symbol)
\* characters of the symbol name
overwrite_elf_table_prefix(table, rc, restore_original) ==
    [ i \in DOMAIN table |->
        [ symname |-> table[i].symname,
          slot    |->
            LET hits == { h \in DOMAIN HookNames :
                            is_prefix_of(HookNames[h], table[i].symname) }
            IN  IF hits = {}
                THEN table[i].slot
                ELSE LET h == CHOOSE x \in hits : \A y \in hits : x <= y
                     IN  patch_symbol(SymbolHook(HookNames[h]),
                                      intercept_fn(HookNames[h]),
                                      rc, restore_original).slot ] ]

\* an overwrite_elf_table that gives a table up when its pages cannot be made
\* writable
overwrite_elf_table_gives_up(table, rc, restore_original) ==
    IF unprotect_page(rc) < 0
    THEN table
    ELSE [ i \in DOMAIN table |->
            [ symname |-> table[i].symname,
              slot    |-> TRY_HOOK(1, table[i], rc, restore_original).slot ] ]

\* overwrite_elf_table: every relocation of the table goes through the chain
overwrite_elf_table(table, rc, restore_original) ==
    [ i \in DOMAIN table |->
        [ symname |-> table[i].symname,
          slot    |-> TRY_HOOK(1, table[i], rc, restore_original).slot ] ]

\* does overwrite_elf_table log a warning for this table
elf_table_warns(table, rc, restore_original) ==
    \E i \in DOMAIN table : TRY_HOOK(1, table[i], rc, restore_original).warn

\* patch_symbols: the three relocation tables of one dynamic section
patch_symbols(module, rc, restore_original) ==
    [ module EXCEPT
        !.rel    = overwrite_elf_table(module.rel, rc, restore_original),
        !.rela   = overwrite_elf_table(module.rela, rc, restore_original),
        !.jmprel = overwrite_elf_table(module.jmprel, rc, restore_original) ]

patch_symbols_warns(module, rc, restore_original) ==
    \/ elf_table_warns(module.rel, rc, restore_original)
    \/ elf_table_warns(module.rela, rc, restore_original)
    \/ elf_table_warns(module.jmprel, rc, restore_original)

\* a test that leaves only the vDSO alone
is_excluded_vdso_only(dlpi_name) == strstr(dlpi_name, "linux-vdso.so.1")

\* the test of phdrs_callback that leaves the linker and the vDSO alone
is_excluded(dlpi_name) ==
    strstr(dlpi_name, "/ld-linux") \/ strstr(dlpi_name, "linux-vdso.so.1")

\* the loop of phdrs_callback over the program headers: every PT_DYNAMIC
\* header has patch_symbols run on the module
RECURSIVE phdr_loop(_, _, _, _)
phdr_loop(module, k, rc, restore_original) ==
    IF k > Len(module.dlpi_phdr)
    THEN module
    ELSE IF module.dlpi_phdr[k] # "PT_DYNAMIC"
         THEN phdr_loop(module, k + 1, rc, restore_original)
         ELSE phdr_loop(patch_symbols(module, rc, restore_original),
                        k + 1, rc, restore_original)

has_dynamic(module) ==
    \E k \in DOMAIN module.dlpi_phdr : module.dlpi_phdr[k] = "PT_DYNAMIC"

\* the patched set after the first lines of phdrs_callback
patched_after(set, dlpi_name, restore_original) ==
    IF restore_original THEN {} ELSE set \cup {dlpi_name}

\* a phdrs_callback that never looks the name up
already_patched_never(set, dlpi_name, restore_original) == FALSE

\* a phdrs_callback whose restore visits only the modules of the set
already_patched_both_ways(set, dlpi_name, restore_original) ==
    IF restore_original THEN dlpi_name \notin set ELSE dlpi_name \in set

\* phdrs_callback returns early because the name is already in the set
already_patched(set, dlpi_name, restore_original) ==
    ~restore_original /\ dlpi_name \in set

\* phdrs_callback on one module: the state of the driver after the call.
\* st = [mods: the modules visited so far, set: patched, warn: a warning was logged]
phdrs_callback(st, info, rc, restore_original) ==
    IF already_patched(st.set, info.dlpi_name, restore_original)
    THEN [st EXCEPT !.mods = Append(@, info)]
    ELSE LET set2 == patched_after(st.set, info.dlpi_name, restore_original)
             seen == IF restore_original
                     THEN [info EXCEPT !.patch_count = 0]
                     ELSE info
         IN  IF is_excluded(info.dlpi_name)
             THEN [st EXCEPT !.mods = Append(@, seen), !.set = set2]
             ELSE [ mods |-> Append(st.mods,
                        LET done == phdr_loop(seen, 1, rc, restore_original)
                        IN  IF ~restore_original /\ has_dynamic(seen)
                            THEN [done EXCEPT !.patch_count =
                                     IF @ < MaxCount THEN @ + 1 ELSE @]
                            ELSE done),
                    set  |-> set2,
                    warn |-> st.warn \/
                             (has_dynamic(seen) /\
                              patch_symbols_warns(seen, rc, restore_original)) ]

\* dl_iterate_phdr(&phdrs_callback, &restore_original): the callback runs on
\* every loaded module in order; denied is the set of positions whose pages
\* mprotect refuses
RECURSIVE dl_iterate_phdr(_, _, _, _, _)
dl_iterate_phdr(st, mods, k, denied, restore_original) ==
    IF k > Len(mods)
    THEN st
    ELSE dl_iterate_phdr(
            phdrs_callback(st, mods[k], IF k \in denied THEN -1 ELSE 0,
                           restore_original),
            mods, k + 1, denied, restore_original)

sweep(denied, restore_original) ==
    dl_iterate_phdr([mods |-> <<>>, set |-> patched, warn |-> FALSE],
                    loaded, 1, denied, restore_original)

----------------------------------------------------------------------------
(* The modules the process can load *)

PT_HEADERS == << "PT_LOAD", "PT_DYNAMIC", "PT_LOAD" >>

\* the images: the path of each and the symbols its relocation tables name
Image(i) ==
    CASE i = 1 -> [ dlpi_name |-> "", rel |-> <<>>,
                    rela |-> << "free" >>, jmprel |-> << "malloc", "printf" >> ]
      [] i = 2 -> [ dlpi_name |-> "/usr/lib/libfoo.so",
                    rel |-> << "calloc", "reallocarray" >>,
                    rela |-> << "memcpy" >>, jmprel |-> << "dlopen" >> ]
      [] i = 3 -> [ dlpi_name |-> "", rel |-> <<>>,
                    rela |-> <<>>, jmprel |-> << "free" >> ]
      [] i = 4 -> [ dlpi_name |-> "/lib64/ld-linux-x86-64.so.2", rel |-> <<>>,
                    rela |-> << "malloc" >>, jmprel |-> <<>> ]
      [] i = 5 -> [ dlpi_name |-> "linux-vdso.so.1", rel |-> <<>>,
                    rela |-> <<>>, jmprel |-> << "munmap" >> ]

Images == { 1, 2, 3, 4, 5 }
MainImage == 1

\* the values the dynamic linker may have left in a slot for a symbol
LinkedValues(sym) ==
    IF sym \in Catalog THEN { real_fn(sym), plt_stub(sym) } ELSE { real_fn(sym) }

\* the tables of relocations over the list of symbols syms, each slot holding
\* one of the values the linker may have left there
LinkedTables(syms) ==
    { t \in [ DOMAIN syms -> { [symname |-> s, slot |-> v] :
                                 s \in { syms[j] : j \in DOMAIN syms },
                                 v \in UNION { LinkedValues(syms[j]) : j \in DOMAIN syms } } ] :
        \A j \in DOMAIN syms :
            t[j].symname = syms[j] /\ t[j].slot \in LinkedValues(syms[j]) }

\* a freshly loaded module of image i
FreshModules(i) ==
    { [ image |-> i, dlpi_name |-> Image(i).dlpi_name, dlpi_phdr |-> PT_HEADERS,
        rel |-> r, rela |-> ra, jmprel |-> j, patch_count |-> 0 ] :
        r \in LinkedTables(Image(i).rel),
        ra \in LinkedTables(Image(i).rela),
        j \in LinkedTables(Image(i).jmprel) }

LoadedImages == { loaded[k].image : k \in DOMAIN loaded }

----------------------------------------------------------------------------
(* The operations *)

\* the history keeps the last two driver operations
Remember(op) ==
    IF Len(last_op) = 0 THEN << op >> ELSE << last_op[Len(last_op)], op >>

\* the sets of modules whose pages mprotect may refuse during one sweep
Denials == { {}, DOMAIN loaded } \cup { {k} : k \in DOMAIN loaded }

\* void overwrite_symbols() noexcept
overwrite_symbols ==
    \E denied \in Denials :
        \E st \in { sweep(denied, FALSE) } :
            /\ loaded' = st.mods
            /\ patched' = st.set
            /\ log_warning' = st.warn
            /\ last_op' = Remember("overwrite")
            /\ pre_patch' = loaded
            /\ UNCHANGED thread_vars
            /\ UNCHANGED finder_vars

\* void restore_symbols() noexcept
restore_symbols ==
    \E denied \in Denials :
        \E st \in { sweep(denied, TRUE) } :
            /\ loaded' = st.mods
            /\ patched' = st.set
            /\ log_warning' = st.warn
            /\ last_op' = Remember("restore")
            /\ pre_patch' = IF last_op # <<>> /\ last_op[Len(last_op)] = "overwrite"
                            THEN pre_patch ELSE <<>>
            /\ UNCHANGED thread_vars
            /\ UNCHANGED finder_vars

\* the platform loads a module: it is enumerated after the ones loaded before
LoadModule ==
    /\ Len(loaded) < MaxLoaded
    /\ \E i \in Images \ LoadedImages : \E m \in FreshModules(i) :
           loaded' = Append(loaded, m)
    /\ last_op' = <<>>
    /\ pre_patch' = <<>>
    /\ UNCHANGED <<patched, log_warning>>
    /\ UNCHANGED thread_vars
    /\ UNCHANGED finder_vars

\* the platform unloads a module other than the main executable
UnloadModule ==
    /\ \E k \in DOMAIN loaded :
           /\ k # 1
           /\ loaded' = [ j \in 1..(Len(loaded) - 1) |->
                            IF j < k THEN loaded[j] ELSE loaded[j + 1] ]
    /\ last_op' = <<>>
    /\ pre_patch' = <<>>
    /\ UNCHANGED <<patched, log_warning>>
    /\ UNCHANGED thread_vars
    /\ UNCHANGED finder_vars


----------------------------------------------------------------------------
(* hooks.cpp: what the trampolines call *)

\* the threads of the application
Threads == { 1, 2 }

\* at most this many trampoline calls start when threads run concurrently
MaxCalls == 3
\* at most this many trampoline calls start when one thread calls every hook
MaxCallsSeq == 2
\* the real allocator has this many addresses to hand out
NumAddrs == 2

NULL == 0
MAP_FAILED == -1
ENOMEM == 12

HeapAddrs == 1..NumAddrs
MapAddrs == { 101 }
Sizes == { 8 }
ReallocSizes == { 0, 8 }
Counts == { 1, 2 }
Alignments == { 16 }
Lengths == { 4096 }
DlHandles == { 201 }

\* AllocatorKind allocatorKind(const Allocator& allocator)
allocatorKind(allocator) ==
    CASE allocator \in { "CALLOC", "MALLOC", "MEMALIGN", "POSIX_MEMALIGN",
                         "PVALLOC", "REALLOC", "VALLOC" } -> "SIMPLE_ALLOCATOR"
      [] allocator = "FREE" -> "SIMPLE_DEALLOCATOR"
      [] allocator = "MMAP" -> "RANGED_ALLOCATOR"
      [] allocator = "MUNMAP" -> "RANGED_DEALLOCATOR"

\* the calls on the sink (tracking_api)
trackAllocation(ptr, size, allocator) ==
    [e |-> "sink", op |-> "trackAllocation", ptr |-> ptr, size |-> size,
     allocator |-> allocator]

trackDeallocation(ptr, size, allocator) ==
    [e |-> "sink", op |-> "trackDeallocation", ptr |-> ptr, size |-> size,
     allocator |-> allocator]

invalidate_module_cache == [e |-> "sink", op |-> "invalidate_module_cache"]

flushCache == [e |-> "sink", op |-> "flushCache"]

install_trace_function == [e |-> "sink", op |-> "install_trace_function"]

\* a call of a captured original: hooks::fn(args) returned res
RealEvent(fn, args, res) == [e |-> "real", fn |-> fn, args |-> args, res |-> res]

\* the outcomes of the captured originals: the result, and the addresses
\* handed out afterwards
real_alloc ==
    { [res |-> NULL, heap |-> heap] } \cup
    { [res |-> a, heap |-> heap \cup {a}] : a \in HeapAddrs \ heap }

real_free(ptr) == heap \ {ptr}

real_realloc(ptr, size) ==
    IF ptr # NULL /\ size = 0
    THEN { [res |-> NULL, heap |-> heap \ {ptr}] }
    ELSE { [res |-> NULL, heap |-> heap] } \cup
         { [res |-> ptr, heap |-> heap] : x \in IF ptr # NULL THEN {1} ELSE {} } \cup
         { [res |-> a, heap |-> (heap \ {ptr}) \cup {a}] : a \in HeapAddrs \ heap }

real_posix_memalign ==
    { [res |-> ENOMEM, mem |-> NULL, heap |-> heap] } \cup
    { [res |-> 0, mem |-> a, heap |-> heap \cup {a}] : a \in HeapAddrs \ heap }

real_mmap ==
    { [res |-> MAP_FAILED, heap |-> heap] } \cup
    { [res |-> a, heap |-> heap \cup {a}] : a \in MapAddrs \ heap }

real_munmap(addr) ==
    { [res |-> -1, heap |-> heap], [res |-> 0, heap |-> heap \ {addr}] }

real_dlopen == { NULL } \cup DlHandles

real_dlclose == { 0, -1 }

real_PyGILState_Ensure == { "PyGILState_LOCKED", "PyGILState_UNLOCKED" }

----------------------------------------------------------------------------
(* The steps of a trampoline *)

NoFrame == [hook |-> "none", args |-> <<>>, tr |-> <<>>, val |-> "none",
            mem |-> NULL, ret |-> "none"]

\* the statement  val = hooks::fn(args);  with outcome res
DoReal(t, fn, args, res, next) ==
    /\ frame' = [frame EXCEPT ![t].tr = Append(@, RealEvent(fn, args, res)),
                              ![t].val = res]
    /\ hist' = Append(hist, [t |-> t, ev |-> RealEvent(fn, args, res)])
    /\ pc' = [pc EXCEPT ![t] = next]
    /\ UNCHANGED <<owned, ncalls>>

\* a statement that calls the sink
DoSink(t, ev, next) ==
    /\ frame' = [frame EXCEPT ![t].tr = Append(@, ev)]
    /\ hist' = Append(hist, [t |-> t, ev |-> ev])
    /\ pc' = [pc EXCEPT ![t] = next]
    /\ UNCHANGED <<heap, owned, ncalls>>

\* the statement  return v;
DoReturn(t, v) ==
    /\ frame' = [frame EXCEPT ![t].ret = v]
    /\ pc' = [pc EXCEPT ![t] = "done"]
    /\ UNCHANGED <<heap, owned, hist, ncalls>>

At(t, hook, label) == frame[t].hook = hook /\ pc[t] = label

----------------------------------------------------------------------------
(* hooks.cpp: the intercept trampolines, one statement per step *)

\* void* mmap(void* addr, size_t length, int prot, int flags, int fd, off_t offset)
intercept_mmap(t) ==
    \/ /\ At(t, "mmap", "call")
       /\ \E o \in real_mmap :
            /\ DoReal(t, "mmap", frame[t].args, o.res, "track")
            /\ heap' = o.heap
    \/ /\ At(t, "mmap", "track")
       /\ DoSink(t, trackAllocation(frame[t].val, frame[t].args[2], "MMAP"), "ret")
    \/ /\ At(t, "mmap", "ret")
       /\ DoReturn(t, frame[t].val)

\* an mmap64 that forwards to hooks::mmap
intercept_mmap64_calls_mmap(t) ==
    \/ /\ At(t, "mmap64", "call")
       /\ \E o \in real_mmap :
            /\ DoReal(t, "mmap", frame[t].args, o.res, "track")
            /\ heap' = o.heap
    \/ /\ At(t, "mmap64", "track")
       /\ DoSink(t, trackAllocation(frame[t].val, frame[t].args[2], "MMAP"), "ret")
    \/ /\ At(t, "mmap64", "ret")
       /\ DoReturn(t, frame[t].val)

\* void* mmap64(void* addr, size_t length, int prot, int flags, int fd, off_t offset)
intercept_mmap64(t) ==
    \/ /\ At(t, "mmap64", "call")
       /\ \E o \in real_mmap :
            /\ DoReal(t, "mmap64", frame[t].args, o.res, "track")
            /\ heap' = o.heap
    \/ /\ At(t, "mmap64", "track")
       /\ DoSink(t, trackAllocation(frame[t].val, frame[t].args[2], "MMAP"), "ret")
    \/ /\ At(t, "mmap64", "ret")
       /\ DoReturn(t, frame[t].val)

\* int munmap(void* addr, size_t length)
intercept_munmap(t) ==
    \/ /\ At(t, "munmap", "track")
       /\ DoSink(t, trackDeallocation(frame[t].args[1], frame[t].args[2], "MUNMAP"),
                 "call")
    \/ /\ At(t, "munmap", "call")
       /\ \E o \in real_munmap(frame[t].args[1]) :
            /\ DoReal(t, "munmap", frame[t].args, o.res, "ret")
            /\ heap' = o.heap
    \/ /\ At(t, "munmap", "ret")
       /\ DoReturn(t, frame[t].val)

\* void* malloc(size_t size)
intercept_malloc(t) ==
    \/ /\ At(t, "malloc", "call")
       /\ \E o \in real_alloc :
            /\ DoReal(t, "malloc", frame[t].args, o.res, "track")
            /\ heap' = o.heap
    \/ /\ At(t, "malloc", "track")
       /\ DoSink(t, trackAllocation(frame[t].val, frame[t].args[1], "MALLOC"), "ret")
    \/ /\ At(t, "malloc", "ret")
       /\ DoReturn(t, frame[t].val)

\* a free that tells the sink after the real call
intercept_free_late(t) ==
    \/ /\ At(t, "free", "track")
       /\ DoReal(t, "free", frame[t].args, "void", "call")
       /\ heap' = real_free(frame[t].args[1])
    \/ /\ At(t, "free", "call")
       /\ DoSink(t, trackDeallocation(frame[t].args[1], 0, "FREE"), "ret")
    \/ /\ At(t, "free", "ret")
       /\ DoReturn(t, "void")

\* void free(void* ptr)
intercept_free(t) ==
    \/ /\ At(t, "free", "track")
       /\ DoSink(t, trackDeallocation(frame[t].args[1], 0, "FREE"), "call")
    \/ /\ At(t, "free", "call")
       /\ DoReal(t, "free", frame[t].args, "void", "ret")
       /\ heap' = real_free(frame[t].args[1])
    \/ /\ At(t, "free", "ret")
       /\ DoReturn(t, "void")

\* a realloc that reports the new block before it reports the old one gone
intercept_realloc_swapped(t) ==
    \/ /\ At(t, "realloc", "call")
       /\ \E o \in real_realloc(frame[t].args[1], frame[t].args[2]) :
            /\ DoReal(t, "realloc", frame[t].args, o.res,
                      IF o.res # NULL THEN "track" ELSE "ret")
            /\ heap' = o.heap
    \/ /\ At(t, "realloc", "track")
       /\ DoSink(t, trackAllocation(frame[t].val, frame[t].args[2], "REALLOC"), "track2")
    \/ /\ At(t, "realloc", "track2")
       /\ DoSink(t, trackDeallocation(frame[t].args[1], 0, "FREE"), "ret")
    \/ /\ At(t, "realloc", "ret")
       /\ DoReturn(t, frame[t].val)

\* void* realloc(void* ptr, size_t size)
intercept_realloc(t) ==
    \/ /\ At(t, "realloc", "call")
       /\ \E o \in real_realloc(frame[t].args[1], frame[t].args[2]) :
            /\ DoReal(t, "realloc", frame[t].args, o.res,
                      IF o.res # NULL THEN "track" ELSE "ret")
            /\ heap' = o.heap
    \/ /\ At(t, "realloc", "track")
       /\ DoSink(t, trackDeallocation(frame[t].args[1], 0, "FREE"), "track2")
    \/ /\ At(t, "realloc", "track2")
       /\ DoSink(t, trackAllocation(frame[t].val, frame[t].args[2], "REALLOC"), "ret")
    \/ /\ At(t, "realloc", "ret")
       /\ DoReturn(t, frame[t].val)

\* void* calloc(size_t num, size_t size)
intercept_calloc(t) ==
    \/ /\ At(t, "calloc", "call")
       /\ \E o \in real_alloc :
            /\ DoReal(t, "calloc", frame[t].args, o.res,
                      IF o.res # NULL THEN "track" ELSE "ret")
            /\ heap' = o.heap
    \/ /\ At(t, "calloc", "track")
       /\ DoSink(t, trackAllocation(frame[t].val, frame[t].args[1] * frame[t].args[2],
                                    "CALLOC"), "ret")
    \/ /\ At(t, "calloc", "ret")
       /\ DoReturn(t, frame[t].val)

\* int posix_memalign(void** memptr, size_t alignment, size_t size)
intercept_posix_memalign(t) ==
    \/ /\ At(t, "posix_memalign", "call")
       /\ \E o \in real_posix_memalign :
            /\ frame' = [frame EXCEPT
                 ![t].tr = Append(@, RealEvent("posix_memalign", frame[t].args, o.res)),
                 ![t].val = o.res,
                 ![t].mem = IF o.res = 0 THEN o.mem ELSE @]
            /\ hist' = Append(hist, [t |-> t,
                          ev |-> RealEvent("posix_memalign", frame[t].args, o.res)])
            /\ pc' = [pc EXCEPT ![t] = IF o.res = 0 THEN "track" ELSE "ret"]
            /\ heap' = o.heap
            /\ UNCHANGED <<owned, ncalls>>
    \/ /\ At(t, "posix_memalign", "track")
       /\ DoSink(t, trackAllocation(frame[t].mem, frame[t].args[3], "POSIX_MEMALIGN"),
                 "ret")
    \/ /\ At(t, "posix_memalign", "ret")
       /\ DoReturn(t, frame[t].val)

\* void* memalign(size_t alignment, size_t size)
intercept_memalign(t) ==
    \/ /\ At(t, "memalign", "call")
       /\ \E o \in real_alloc :
            /\ DoReal(t, "memalign", frame[t].args, o.res,
                      IF o.res # NULL THEN "track" ELSE "ret")
            /\ heap' = o.heap
    \/ /\ At(t, "memalign", "track")
       /\ DoSink(t, trackAllocation(frame[t].val, frame[t].args[2], "MEMALIGN"), "ret")
    \/ /\ At(t, "memalign", "ret")
       /\ DoReturn(t, frame[t].val)

\* void* valloc(size_t size)
intercept_valloc(t) ==
    \/ /\ At(t, "valloc", "call")
       /\ \E o \in real_alloc :
            /\ DoReal(t, "valloc", frame[t].args, o.res,
                      IF o.res # NULL THEN "track" ELSE "ret")
            /\ heap' = o.heap
    \/ /\ At(t, "valloc", "track")
       /\ DoSink(t, trackAllocation(frame[t].val, frame[t].args[1], "VALLOC"), "ret")
    \/ /\ At(t, "valloc", "ret")
       /\ DoReturn(t, frame[t].val)

\* void* pvalloc(size_t size)
intercept_pvalloc(t) ==
    \/ /\ At(t, "pvalloc", "call")
       /\ \E o \in real_alloc :
            /\ DoReal(t, "pvalloc", frame[t].args, o.res,
                      IF o.res # NULL THEN "track" ELSE "ret")
            /\ heap' = o.heap
    \/ /\ At(t, "pvalloc", "track")
       /\ DoSink(t, trackAllocation(frame[t].val, frame[t].args[1], "PVALLOC"), "ret")
    \/ /\ At(t, "pvalloc", "ret")
       /\ DoReturn(t, frame[t].val)

\* a dlopen that invalidates the module cache whatever the real call returned
intercept_dlopen_unconditional(t) ==
    \/ /\ At(t, "dlopen", "call")
       /\ \E res \in real_dlopen :
            DoReal(t, "dlopen", frame[t].args, res, "track")
       /\ UNCHANGED heap
    \/ /\ At(t, "dlopen", "track")
       /\ DoSink(t, invalidate_module_cache, "ret")
    \/ /\ At(t, "dlopen", "ret")
       /\ DoReturn(t, frame[t].val)

\* void* dlopen(const char* filename, int flag)
intercept_dlopen(t) ==
    \/ /\ At(t, "dlopen", "call")
       /\ \E res \in real_dlopen :
            DoReal(t, "dlopen", frame[t].args, res,
                   IF res # NULL THEN "track" ELSE "ret")
       /\ UNCHANGED heap
    \/ /\ At(t, "dlopen", "track")
       /\ DoSink(t, invalidate_module_cache, "ret")
    \/ /\ At(t, "dlopen", "ret")
       /\ DoReturn(t, frame[t].val)

\* a dlclose that flushes the native trace cache only on success
intercept_dlclose_flush_on_success(t) ==
    \/ /\ At(t, "dlclose", "call")
       /\ \E res \in real_dlclose :
            DoReal(t, "dlclose", frame[t].args, res,
                   IF res = 0 THEN "flush" ELSE "ret")
       /\ UNCHANGED heap
    \/ /\ At(t, "dlclose", "flush")
       /\ DoSink(t, flushCache, "track")
    \/ /\ At(t, "dlclose", "track")
       /\ DoSink(t, invalidate_module_cache, "ret")
    \/ /\ At(t, "dlclose", "ret")
       /\ DoReturn(t, frame[t].val)

\* int dlclose(void* handle)
intercept_dlclose(t) ==
    \/ /\ At(t, "dlclose", "call")
       /\ \E res \in real_dlclose :
            DoReal(t, "dlclose", frame[t].args, res, "flush")
       /\ UNCHANGED heap
    \/ /\ At(t, "dlclose", "flush")
       /\ DoSink(t, flushCache, IF frame[t].val = 0 THEN "track" ELSE "ret")
    \/ /\ At(t, "dlclose", "track")
       /\ DoSink(t, invalidate_module_cache, "ret")
    \/ /\ At(t, "dlclose", "ret")
       /\ DoReturn(t, frame[t].val)

\* PyGILState_STATE PyGILState_Ensure()
intercept_PyGILState_Ensure(t) ==
    \/ /\ At(t, "PyGILState_Ensure", "call")
       /\ \E res \in real_PyGILState_Ensure :
            DoReal(t, "PyGILState_Ensure", frame[t].args, res, "track")
       /\ UNCHANGED heap
    \/ /\ At(t, "PyGILState_Ensure", "track")
       /\ DoSink(t, install_trace_function, "ret")
    \/ /\ At(t, "PyGILState_Ensure", "ret")
       /\ DoReturn(t, frame[t].val)

----------------------------------------------------------------------------
(* The application: it calls the hooked symbols through patched slots *)

\* the arguments the application may pass to a hooked symbol
CallArgs(hook) ==
    CASE hook \in { "malloc", "valloc", "pvalloc" } -> { << s >> : s \in Sizes }
      [] hook = "free" ->
            { << p >> : p \in {NULL} \cup (owned \cap HeapAddrs) }
      [] hook = "calloc" -> { << n, s >> : n \in Counts, s \in Sizes }
      [] hook = "realloc" ->
            { << p, s >> : p \in {NULL} \cup (owned \cap HeapAddrs), s \in ReallocSizes }
      [] hook = "posix_memalign" ->
            { << "memptr", a, s >> : a \in Alignments, s \in Sizes }
      [] hook = "memalign" -> { << a, s >> : a \in Alignments, s \in Sizes }
      [] hook = "dlopen" -> { << "libfoo.so", 1 >> }
      [] hook = "dlclose" -> { << h >> : h \in DlHandles }
      [] hook \in { "mmap", "mmap64" } ->
            { << NULL, l, 3, 34, -1, 0 >> : l \in Lengths }
      [] hook = "munmap" ->
            { << a, l >> : a \in owned \cap MapAddrs, l \in Lengths }
      [] hook = "PyGILState_Ensure" -> { <<>> }

\* the statement a trampoline starts with
FirstLabel(hook) == IF hook \in { "free", "munmap" } THEN "track" ELSE "call"

\* the addresses the application gives away by making the call
Released(hook, args) ==
    IF hook \in { "free", "realloc", "munmap" } THEN { args[1] } ELSE {}

\* the addresses the application holds once the call has returned
Acquired(f) ==
    CASE f.hook \in { "malloc", "calloc", "memalign", "valloc", "pvalloc" } ->
            IF f.ret # NULL THEN { f.ret } ELSE {}
      [] f.hook \in { "mmap", "mmap64" } ->
            IF f.ret # MAP_FAILED THEN { f.ret } ELSE {}
      [] f.hook = "posix_memalign" -> IF f.ret = 0 THEN { f.mem } ELSE {}
      [] f.hook = "realloc" ->
            IF f.ret # NULL THEN { f.ret }
            ELSE IF f.args[2] # 0 THEN { f.args[1] } \ { NULL } ELSE {}
      [] f.hook = "munmap" -> IF f.ret # 0 THEN { f.args[1] } ELSE {}
      [] OTHER -> {}

\* thread t calls hook with args; limit bounds the number of calls
Call(t, hook, args, limit) ==
    /\ pc[t] = "idle"
    /\ ncalls < limit
    /\ args \in CallArgs(hook)
    /\ frame' = [frame EXCEPT ![t] = [NoFrame EXCEPT !.hook = hook, !.args = args]]
    /\ pc' = [pc EXCEPT ![t] = FirstLabel(hook)]
    /\ owned' = owned \ Released(hook, args)
    /\ ncalls' = ncalls + 1
    /\ UNCHANGED <<heap, hist>>

\* the call has returned: thread t goes on with the result
Resume(t) ==
    /\ pc[t] = "done"
    /\ owned' = owned \cup Acquired(frame[t])
    /\ frame' = [frame EXCEPT ![t] = NoFrame]
    /\ pc' = [pc EXCEPT ![t] = "idle"]
    /\ UNCHANGED <<heap, hist, ncalls>>

----------------------------------------------------------------------------
(* hooks.cpp: the symbol finder *)

\* an enumeration reports at most this many modules
MaxEnum == 3

\* the paths, load addresses, program headers and symbol tables of the
\* modules an enumeration can report
FinderNames == { "", "/usr/lib/libc.so.6", "linux-vdso.so.1" }

dlpi_addr_of(dlpi_name) ==
    CASE dlpi_name = "" -> 4096
      [] dlpi_name = "/usr/lib/libc.so.6" -> 8192
      [] dlpi_name = "linux-vdso.so.1" -> 12288

FinderModules ==
    { [ dlpi_name |-> n, dlpi_addr |-> dlpi_addr_of(n),
        dlpi_phdr |-> h, symtab |-> s ] :
        n \in FinderNames,
        h \in { PT_HEADERS, << "PT_LOAD" >> },
        s \in { { "free" }, { "malloc", "free" } } }

\* the orders in which dl_iterate_phdr can report modules
Enumerations ==
    UNION { [ 1..n -> FinderModules ] : n \in 1..MaxEnum }

\* SymbolTable(dlpi_addr, dyn).getSymbolAddress(name): the address of the
\* definition of name in the module, 0 when the module does not define it
getSymbolAddress(info, symbol_name) ==
    IF symbol_name \in info.symtab THEN info.dlpi_addr + 16 ELSE 0

\* the loop of phdr_symfind_callback over the program headers from the k-th
\* on: the address found in the first PT_DYNAMIC header that has one, else 0
RECURSIVE symfind_loop(_, _, _)
symfind_loop(info, k, symbol_name) ==
    IF k > Len(info.dlpi_phdr)
    THEN 0
    ELSE IF info.dlpi_phdr[k] # "PT_DYNAMIC"
         THEN symfind_loop(info, k + 1, symbol_name)
         ELSE IF getSymbolAddress(info, symbol_name) = 0
              THEN symfind_loop(info, k + 1, symbol_name)
              ELSE getSymbolAddress(info, symbol_name)

\* a symbol_query before the enumeration starts
symbol_query(symbol_name) ==
    [ maps_visited |-> 0, symbol_name |-> symbol_name, address |-> NULL ]

\* a callback that counts the module before it tests the count
phdr_symfind_callback_preincrement(result, info) ==
    LET counted == [result EXCEPT !.maps_visited = @ + 1]
    IN  IF counted.maps_visited # 0 /\ info.dlpi_name = ""
        THEN [ result |-> counted, ret |-> 0, examined |-> FALSE ]
        ELSE IF strstr(info.dlpi_name, "linux-vdso.so.1")
             THEN [ result |-> counted, ret |-> 0, examined |-> FALSE ]
             ELSE LET offset == symfind_loop(info, 1, result.symbol_name)
                  IN  IF offset = 0
                      THEN [ result |-> counted, ret |-> 0, examined |-> TRUE ]
                      ELSE [ result |-> [counted EXCEPT !.address = offset],
                             ret |-> 1, examined |-> TRUE ]

\* int phdr_symfind_callback(dl_phdr_info* info, size_t size, void* data):
\* the symbol_query after the call, the value returned, and whether the
\* module got past the two early returns
phdr_symfind_callback(result, info) ==
    LET counted == [result EXCEPT !.maps_visited = @ + 1]
    IN  IF result.maps_visited # 0 /\ info.dlpi_name = ""
        THEN [ result |-> counted, ret |-> 0, examined |-> FALSE ]
        ELSE IF strstr(info.dlpi_name, "linux-vdso.so.1")
             THEN [ result |-> counted, ret |-> 0, examined |-> FALSE ]
             ELSE LET offset == symfind_loop(info, 1, result.symbol_name)
                  IN  IF offset = 0
                      THEN [ result |-> counted, ret |-> 0, examined |-> TRUE ]
                      ELSE [ result |-> [counted EXCEPT !.address = offset],
                             ret |-> 1, examined |-> TRUE ]

\* no lookup is running
NoQuery ==
    [ mods |-> <<>>, k |-> 1, result |-> symbol_query("malloc"),
      examined |-> {}, ret |-> 0 ]

\* a lookup of malloc about to start over the enumeration mods
Queries == { [NoQuery EXCEPT !.mods = e] : e \in Enumerations }

\* dl_iterate_phdr(&phdr_symfind_callback, &query): the callback runs on the
\* next module reported; the enumeration ends when a call returns non-zero
dl_iterate_phdr_symfind ==
    /\ query.ret = 0
    /\ query.k <= Len(query.mods)
    /\ \E out \in { phdr_symfind_callback(query.result, query.mods[query.k]) } :
        query' = [ query EXCEPT
                     !.k = @ + 1,
                     !.result = out.result,
                     !.ret = out.ret,
                     !.examined = IF out.examined THEN @ \cup { query.k } ELSE @ ]
    /\ UNCHANGED driver_vars
    /\ UNCHANGED thread_vars

----------------------------------------------------------------------------
(* The specifications *)

InitDriver ==
    /\ loaded \in { << m >> : m \in FreshModules(MainImage) }
    /\ patched = {}
    /\ log_warning = FALSE
    /\ last_op = <<>>
    /\ pre_patch = <<>>

\* the application made some allocations before the hooks were installed
InitThreads ==
    /\ pc = [t \in Threads |-> "idle"]
    /\ frame = [t \in Threads |-> NoFrame]
    /\ heap = { 1 } \cup MapAddrs
    /\ owned = { 1 } \cup MapAddrs
    /\ hist = <<>>
    /\ ncalls = 0

Init == InitDriver /\ InitThreads /\ query = NoQuery

\* the driver is at rest: no sweep has run yet
AtRest ==
    /\ loaded \in { << m >> : m \in { f \in FreshModules(MainImage) :
                        \A j \in DOMAIN f.jmprel : f.jmprel[j].slot.k = "real" } }
    /\ \A j \in DOMAIN loaded[1].rela : loaded[1].rela[j].slot.k = "real"
    /\ patched = {}
    /\ log_warning = FALSE
    /\ last_op = <<>>
    /\ pre_patch = <<>>
    /\ InitThreads

\* the threads run while the driver is at rest and no lookup is running
InitAtRest == AtRest /\ query = NoQuery

\* the patch driver, with modules coming and going
Next ==
    \/ overwrite_symbols
    \/ restore_symbols
    \/ LoadModule
    \/ UnloadModule

Spec == Init /\ [][Next]_vars

\* one thread calling every hooked symbol
CallAny(t) ==
    \E hook \in Catalog : \E args \in CallArgs(hook) : Call(t, hook, args, MaxCallsSeq)

NextTramp ==
    /\ UNCHANGED driver_vars
    /\ UNCHANGED finder_vars
    /\ \/ CallAny(1)
       \/ Resume(1)
       \/ intercept_mmap(1)
       \/ intercept_mmap64(1)
       \/ intercept_munmap(1)
       \/ intercept_malloc(1)
       \/ intercept_free(1)
       \/ intercept_realloc(1)
       \/ intercept_calloc(1)
       \/ intercept_posix_memalign(1)
       \/ intercept_memalign(1)
       \/ intercept_valloc(1)
       \/ intercept_pvalloc(1)
       \/ intercept_dlopen(1)
       \/ intercept_dlclose(1)
       \/ intercept_PyGILState_Ensure(1)

SpecTramp == InitAtRest /\ [][NextTramp]_vars

\* threads calling malloc and free concurrently
CallMallocFree(t) ==
    \E hook \in { "malloc", "free" } : \E args \in CallArgs(hook) :
        Call(t, hook, args, MaxCalls)

NextMallocFree ==
    /\ UNCHANGED driver_vars
    /\ UNCHANGED finder_vars
    /\ \E t \in Threads :
        \/ CallMallocFree(t)
        \/ Resume(t)
        \/ intercept_malloc(t)
        \/ intercept_free(t)

SpecMallocFree == InitAtRest /\ [][NextMallocFree]_vars

\* threads calling malloc, free and realloc concurrently
CallConc(t) ==
    \E hook \in { "malloc", "free", "realloc" } : \E args \in CallArgs(hook) :
        Call(t, hook, args, MaxCalls)

NextConc ==
    /\ UNCHANGED driver_vars
    /\ UNCHANGED finder_vars
    /\ \E t \in Threads :
        \/ CallConc(t)
        \/ Resume(t)
        \/ intercept_malloc(t)
        \/ intercept_free(t)
        \/ intercept_realloc(t)

SpecConc == InitAtRest /\ [][NextConc]_vars

\* one lookup of the symbol finder, over every enumeration
InitFind == AtRest /\ query \in Queries

NextFind == dl_iterate_phdr_symfind

SpecFind == InitFind /\ [][NextFind]_vars

----------------------------------------------------------------------------
(* Properties of the patch driver *)

\* the relocation entries of a module, the three tables one after the other
Slots(module) == module.rel \o module.rela \o module.jmprel

\* the positions of the entries of a module whose symbol is in the catalog
Matching(module) ==
    { j \in DOMAIN Slots(module) : Slots(module)[j].symname \in Catalog }

LastOp == IF last_op = <<>> THEN "none" ELSE last_op[Len(last_op)]

\* C1, as claimed: after overwrite_symbols() followed by restore_symbols(),
\* every catalog-matching slot of every loaded module holds the value it held
\* before the overwrite, whatever that value was.
C1_RoundTripPrePatch ==
    last_op = << "overwrite", "restore" >> =>
        \A k \in DOMAIN loaded : \A j \in Matching(loaded[k]) :
            Slots(loaded[k])[j].slot = Slots(pre_patch[k])[j].slot

\* C1, amended: after overwrite_symbols() followed by restore_symbols(), every
\* catalog-matching slot of a module that is not the dynamic linker or the
\* vDSO holds the captured original pointer of its hook, which is the
\* pre-patch value exactly when the slot held that pointer before; the slots
\* of the dynamic linker and the vDSO hold their pre-patch values.
C1_RoundTripOriginal ==
    last_op = << "overwrite", "restore" >> =>
        \A k \in DOMAIN loaded : \A j \in Matching(loaded[k]) :
            LET now == Slots(loaded[k])[j]
                before == Slots(pre_patch[k])[j]
            IN  IF is_excluded(loaded[k].dlpi_name)
                THEN now.slot = before.slot
                ELSE /\ now.slot = SymbolHook(now.symname).d_original
                     /\ (now.slot = before.slot) <=>
                            (before.slot = SymbolHook(now.symname).d_original)

\* C1 witness: a slot that held a lazy-binding stub before the overwrite holds
\* the captured original after the restore.
C1_Witness ==
    /\ last_op = << "overwrite", "restore" >>
    /\ \E k \in DOMAIN loaded : \E j \in Matching(loaded[k]) :
        /\ ~is_excluded(loaded[k].dlpi_name)
        /\ Slots(pre_patch[k])[j].slot = plt_stub(Slots(loaded[k])[j].symname)
        /\ Slots(loaded[k])[j].slot = real_fn(Slots(loaded[k])[j].symname)

\* C2, as claimed: when overwrite_symbols() has returned, every
\* catalog-matching slot of every loaded module that is not the dynamic linker
\* or the vDSO holds the trampoline of its hook.
C2_InstallCoverage ==
    LastOp = "overwrite" =>
        \A k \in DOMAIN loaded :
            ~is_excluded(loaded[k].dlpi_name) =>
                \A j \in Matching(loaded[k]) :
                    Slots(loaded[k])[j].slot = intercept_fn(Slots(loaded[k])[j].symname)

\* C3: between two restores no module is patched more than once, and an
\* overwrite_symbols() that follows another writes no slot at all.
C3_PatchedAtMostOnce ==
    /\ \A k \in DOMAIN loaded : loaded[k].patch_count <= 1
    /\ last_op = << "overwrite", "overwrite" >> => loaded = pre_patch

\* C3 witness: overwrite_symbols() ran twice in a row over a module that the
\* first sweep patched.
C3_Witness ==
    /\ last_op = << "overwrite", "overwrite" >>
    /\ \E k \in DOMAIN loaded :
        /\ loaded[k].patch_count = 1
        /\ \E j \in Matching(loaded[k]) :
            Slots(loaded[k])[j].slot = intercept_fn(Slots(loaded[k])[j].symname)

\* C4, as claimed: the patched set is empty when restore_symbols() has
\* returned, and the overwrite_symbols() that follows patches every loaded
\* module that is not the dynamic linker or the vDSO.
C4_EpochReset ==
    /\ LastOp = "restore" => patched = {}
    /\ last_op = << "restore", "overwrite" >> =>
        \A k \in DOMAIN loaded :
            ~is_excluded(loaded[k].dlpi_name) =>
                /\ loaded[k].patch_count = 1
                /\ \A j \in Matching(loaded[k]) :
                    Slots(loaded[k])[j].slot = intercept_fn(Slots(loaded[k])[j].symname)

\* The part of C4 that holds: only restore_symbols() empties the patched set,
\* and it always does.
C4_OnlyRestoreEmpties ==
    /\ [](LastOp = "restore" => patched = {})
    /\ [][(patched # {} /\ patched' = {}) =>
            (last_op' # <<>> /\ last_op'[Len(last_op')] = "restore")]_vars

----------------------------------------------------------------------------
(* Properties of the trampolines *)

IsPrefix(s, full) ==
    /\ Len(s) <= Len(full)
    /\ \A i \in DOMAIN s : s[i] = full[i]

IsSink(e) == e.e = "sink"
IsReal(e) == e.e = "real"
SinkOf(tr) == SelectSeq(tr, IsSink)
RealOf(tr) == SelectSeq(tr, IsReal)

AllocateShaped ==
    { "malloc", "calloc", "memalign", "posix_memalign", "valloc", "pvalloc",
      "mmap", "mmap64" }

\* did the real call of a returned allocate-shaped call succeed
RealSucceeded(f) ==
    CASE f.hook = "posix_memalign" -> f.val = 0
      [] f.hook \in { "mmap", "mmap64" } -> f.val # MAP_FAILED
      [] OTHER -> f.val # NULL

\* the pointer the real call produced
ResultPointer(f) == IF f.hook = "posix_memalign" THEN f.mem ELSE f.val

\* the size the caller asked for
RequestedSize(f) ==
    CASE f.hook \in { "malloc", "valloc", "pvalloc" } -> f.args[1]
      [] f.hook = "calloc" -> f.args[1] * f.args[2]
      [] f.hook = "posix_memalign" -> f.args[3]
      [] f.hook \in { "memalign", "mmap", "mmap64" } -> f.args[2]

ExpectedKind(hook) ==
    IF hook \in { "mmap", "mmap64" } THEN "RANGED_ALLOCATOR" ELSE "SIMPLE_ALLOCATOR"

\* C5, as claimed: a returned allocate-shaped call made its real call first
\* and emitted one trackAllocation(result pointer, requested size, kind) if
\* the real call succeeded, and no sink event if it failed.
C5_NotifyOnlyOnSuccess ==
    \A t \in Threads :
        (pc[t] = "done" /\ frame[t].hook \in AllocateShaped) =>
            LET f == frame[t]
                ev == SinkOf(f.tr)
            IN  /\ IsReal(f.tr[1])
                /\ IF RealSucceeded(f)
                   THEN /\ Len(ev) = 1
                        /\ ev[1].op = "trackAllocation"
                        /\ ev[1].ptr = ResultPointer(f)
                        /\ ev[1].size = RequestedSize(f)
                        /\ allocatorKind(ev[1].allocator) = ExpectedKind(f.hook)
                   ELSE ev = <<>>

\* what a realloc call does once its real call has returned res
ReallocTrace(args, res) ==
    << RealEvent("realloc", args, res) >> \o
    ( IF res # NULL
      THEN << trackDeallocation(args[1], 0, "FREE"),
              trackAllocation(res, args[2], "REALLOC") >>
      ELSE <<>> )

\* C6: a realloc call makes the real call first; if that returned a pointer
\* it then emits one trackDeallocation(old pointer, 0) and after it one
\* trackAllocation(new pointer, requested size), and nothing else; if it
\* returned null it emits nothing.
C6_ReallocEvents ==
    \A t \in Threads :
        frame[t].hook = "realloc" =>
            LET f == frame[t]
            IN  /\ f.tr # <<>> =>
                    /\ IsReal(f.tr[1])
                    /\ IsPrefix(f.tr, ReallocTrace(f.args, f.tr[1].res))
                /\ pc[t] = "done" =>
                    /\ f.tr # <<>>
                    /\ f.tr = ReallocTrace(f.args, f.tr[1].res)

\* C6 witness: a realloc of a live block has returned a pointer.
C6_Witness ==
    \E t \in Threads :
        /\ pc[t] = "done"
        /\ frame[t].hook = "realloc"
        /\ frame[t].args[1] # NULL
        /\ frame[t].ret # NULL
        /\ Len(SinkOf(frame[t].tr)) = 2

\* C7: free emits trackDeallocation(pointer, 0, SIMPLE_DEALLOCATOR) and
\* munmap emits trackDeallocation(pointer, length, RANGED_DEALLOCATOR), once
\* per call and before the real call is made.
C7_DeallocateBeforeReal ==
    \A t \in Threads :
        frame[t].hook \in { "free", "munmap" } =>
            LET f == frame[t]
            IN  /\ Len(f.tr) <= 2
                /\ Len(f.tr) >= 1 =>
                    /\ f.tr[1].e = "sink"
                    /\ f.tr[1].op = "trackDeallocation"
                    /\ f.tr[1].ptr = f.args[1]
                    /\ f.tr[1].size = IF f.hook = "free" THEN 0 ELSE f.args[2]
                    /\ allocatorKind(f.tr[1].allocator) =
                         IF f.hook = "free" THEN "SIMPLE_DEALLOCATOR"
                                            ELSE "RANGED_DEALLOCATOR"
                /\ Len(f.tr) = 2 => f.tr[2] = RealEvent(f.hook, f.args, f.val)
                /\ pc[t] \in { "ret", "done" } => Len(f.tr) = 2

\* C7 witness: a munmap call has returned after a free of a live block did.
C7_Witness ==
    /\ \E t \in Threads : pc[t] = "done" /\ frame[t].hook = "munmap"
    /\ \E i \in DOMAIN hist : hist[i].ev = RealEvent("free", << 1 >>, "void")

\* what a dlclose call does once its real call has returned res
DlcloseTrace(args, res) ==
    << RealEvent("dlclose", args, res), flushCache >> \o
    ( IF res = 0 THEN << invalidate_module_cache >> ELSE <<>> )

\* C9: dlclose makes the real call first, then flushes the native trace cache
\* once whatever the real call returned, then invalidates the module cache
\* if and only if the real call returned 0.
C9_DlcloseNotifications ==
    \A t \in Threads :
        frame[t].hook = "dlclose" =>
            LET f == frame[t]
            IN  /\ f.tr # <<>> =>
                    /\ IsReal(f.tr[1])
                    /\ IsPrefix(f.tr, DlcloseTrace(f.args, f.tr[1].res))
                /\ pc[t] = "done" =>
                    /\ f.tr # <<>>
                    /\ f.tr = DlcloseTrace(f.args, f.tr[1].res)

\* C9 witness: a dlclose call whose real call failed has returned, the cache
\* flushed.
C9_Witness ==
    \E t \in Threads :
        /\ pc[t] = "done"
        /\ frame[t].hook = "dlclose"
        /\ frame[t].ret = -1
        /\ SinkOf(frame[t].tr) = << flushCache >>

\* C10: every trampoline calls the captured original of its own hook once,
\* with the arguments of the caller, and returns what it returned.
C10_Transparency ==
    \A t \in Threads :
        frame[t].hook # "none" =>
            LET f == frame[t]
                calls == RealOf(f.tr)
            IN  /\ Len(calls) <= 1
                /\ \A i \in DOMAIN calls :
                    /\ calls[i].fn = f.hook
                    /\ calls[i].args = f.args
                /\ pc[t] = "done" =>
                    /\ Len(calls) = 1
                    /\ f.ret = calls[1].res

\* C10 witness: a call with six arguments has returned the result of the
\* original.
C10_Witness ==
    \E t \in Threads :
        /\ pc[t] = "done"
        /\ frame[t].hook = "mmap64"
        /\ frame[t].ret \in MapAddrs
        /\ RealOf(frame[t].tr) = << RealEvent("mmap64", frame[t].args, frame[t].ret) >>

----------------------------------------------------------------------------
(* Properties of concurrent malloc and free *)

IsTrack(h, op, p) == h.ev.e = "sink" /\ h.ev.op = op /\ h.ev.ptr = p

\* C8: when the real allocator hands an address freed by one thread to a
\* malloc of another, the sink has received the trackDeallocation of the
\* first before the trackAllocation of the second; and the sink receives no
\* trackAllocation for an address it records as live (an address: the null
\* pointer of a failed malloc is not one).
C8_NoReuseRace ==
    \A j \in DOMAIN hist :
        (hist[j].ev.e = "sink" /\ hist[j].ev.op = "trackAllocation"
            /\ hist[j].ev.ptr \in HeapAddrs) =>
            LET p == hist[j].ev.ptr
            IN  /\ \A m \in 1..(j - 1) :
                    ( /\ hist[m].t = hist[j].t
                      /\ IsReal(hist[m].ev)
                      /\ hist[m].ev.fn = "malloc"
                      /\ hist[m].ev.res = p ) =>
                        \A i \in 1..(m - 1) :
                            hist[i].ev = RealEvent("free", << p >>, "void") =>
                                \E k \in 1..(j - 1) :
                                    /\ hist[k].t = hist[i].t
                                    /\ hist[k].ev = trackDeallocation(p, 0, "FREE")
                /\ \A i \in 1..(j - 1) :
                    IsTrack(hist[i], "trackAllocation", p) =>
                        \E k \in (i + 1)..(j - 1) :
                            IsTrack(hist[k], "trackDeallocation", p)

\* C8 witness: thread 2 got from malloc the address thread 1 freed, and told
\* the sink.
C8_Witness ==
    \E i, m, j \in DOMAIN hist :
        \E p \in HeapAddrs :
            /\ i < m /\ m < j
            /\ hist[i].t = 1 /\ hist[i].ev = RealEvent("free", << p >>, "void")
            /\ hist[m].t = 2 /\ IsReal(hist[m].ev)
            /\ hist[m].ev.fn = "malloc" /\ hist[m].ev.res = p
            /\ hist[j].t = 2 /\ IsTrack(hist[j], "trackAllocation", p)

----------------------------------------------------------------------------
(* Properties of the trampolines: the number of sink calls *)

\* C11, as claimed: a returned call of a hooked symbol has made exactly one
\* call on the sink, whatever the real call returned.
C11_ExactlyOneNotification ==
    \A t \in Threads :
        pc[t] = "done" => Len(SinkOf(frame[t].tr)) = 1

\* the number of sink calls of a returned call, by hook and outcome
NotificationCount(f) ==
    CASE f.hook \in { "malloc", "free", "mmap", "mmap64", "munmap",
                      "PyGILState_Ensure" } -> 1
      [] f.hook \in { "calloc", "memalign", "valloc", "pvalloc", "dlopen" } ->
            IF f.val # NULL THEN 1 ELSE 0
      [] f.hook = "posix_memalign" -> IF f.val = 0 THEN 1 ELSE 0
      [] f.hook = "realloc" -> IF f.val # NULL THEN 2 ELSE 0
      [] f.hook = "dlclose" -> IF f.val = 0 THEN 2 ELSE 1

\* C11, amended: a returned call has made exactly one sink call for malloc,
\* free, mmap, mmap64, munmap and PyGILState_Ensure; one if the real call
\* succeeded and none if it failed for calloc, memalign, posix_memalign,
\* valloc, pvalloc and dlopen; two if it succeeded and none if it failed for
\* realloc; and for dlclose the cache flush, plus a second one on success.
C11_NotificationsPerHook ==
    \A t \in Threads :
        pc[t] = "done" =>
            Len(SinkOf(frame[t].tr)) = NotificationCount(frame[t])

\* C11 witness: a realloc has returned a pointer after two sink calls, and a
\* call before it returned after exactly one.
C11_Witness ==
    /\ \E t \in Threads :
        /\ pc[t] = "done"
        /\ frame[t].hook = "realloc"
        /\ frame[t].ret # NULL
        /\ Len(SinkOf(frame[t].tr)) = 2
    /\ \E i \in DOMAIN hist : hist[i].ev = trackDeallocation(1, 0, "FREE")

\* what a dlopen call does once its real call has returned res
DlopenTrace(args, res) ==
    << RealEvent("dlopen", args, res) >> \o
    ( IF res # NULL THEN << invalidate_module_cache >> ELSE <<>> )

\* C18: dlopen makes the real call first, then invalidates the module cache
\* once if the real call returned a handle, and makes no sink call if it
\* returned null.
C18_DlopenNotification ==
    \A t \in Threads :
        frame[t].hook = "dlopen" =>
            LET f == frame[t]
            IN  /\ f.tr # <<>> =>
                    /\ IsReal(f.tr[1])
                    /\ IsPrefix(f.tr, DlopenTrace(f.args, f.tr[1].res))
                /\ pc[t] = "done" =>
                    /\ f.tr # <<>>
                    /\ f.tr = DlopenTrace(f.args, f.tr[1].res)

\* C18 witness: a dlopen whose real call returned null has returned with no
\* sink call made.
C18_Witness ==
    \E t \in Threads :
        /\ pc[t] = "done"
        /\ frame[t].hook = "dlopen"
        /\ frame[t].ret = NULL
        /\ SinkOf(frame[t].tr) = <<>>

----------------------------------------------------------------------------
(* Properties of the driver: restore, exclusion, the patched set, failures *)

\* the module is the dynamic linker or the vDSO, by its path
IsLinkerOrVdso(module) ==
    \/ strstr(module.dlpi_name, "/ld-linux")
    \/ strstr(module.dlpi_name, "linux-vdso.so.1")

\* C12: when restore_symbols() has returned, whatever was patched before,
\* every catalog-matching slot of every loaded module other than the dynamic
\* linker and the vDSO holds the captured original of its hook, so no such
\* slot leads to a trampoline.
C12_UnconditionalRestore ==
    LastOp = "restore" =>
        \A k \in DOMAIN loaded :
            ~IsLinkerOrVdso(loaded[k]) =>
                \A j \in Matching(loaded[k]) :
                    LET e == Slots(loaded[k])[j]
                    IN  /\ e.slot = SymbolHook(e.symname).d_original
                        /\ e.slot.k # "intercept"

\* C12 witness: restore_symbols() has returned after an install sweep that
\* skipped a module, because another module of the same path came before it;
\* the slot of the skipped module, which held a lazy-binding stub all along,
\* holds the captured original.
C12_Witness ==
    /\ last_op = << "overwrite", "restore" >>
    /\ \E k \in DOMAIN loaded :
        /\ k > 1
        /\ loaded[k].dlpi_name = loaded[1].dlpi_name
        /\ \E j \in Matching(loaded[k]) :
            /\ Slots(pre_patch[k])[j].slot = plt_stub(Slots(loaded[k])[j].symname)
            /\ Slots(loaded[k])[j].slot = real_fn(Slots(loaded[k])[j].symname)

\* C13: no step writes a relocation slot of a module whose path contains
\* "/ld-linux" or "linux-vdso.so.1": as long as such a module stays loaded its
\* slots keep the values they had when it was loaded.
C13_ExcludedUntouched ==
    [][ \A k \in DOMAIN loaded : \A n \in DOMAIN loaded' :
            ( loaded[k].image = loaded'[n].image /\ IsLinkerOrVdso(loaded[k]) )
                => Slots(loaded'[n]) = Slots(loaded[k]) ]_vars

\* C13 witness: an install sweep and then a restore sweep have run over a
\* dynamic linker whose malloc slot still holds the lazy-binding stub.
C13_Witness ==
    /\ last_op = << "overwrite", "restore" >>
    /\ \E k \in DOMAIN loaded :
        /\ strstr(loaded[k].dlpi_name, "/ld-linux")
        /\ \E j \in Matching(loaded[k]) :
            Slots(loaded[k])[j].slot = plt_stub(Slots(loaded[k])[j].symname)
    /\ \E k \in DOMAIN pre_patch : \E j \in Matching(pre_patch[k]) :
        Slots(pre_patch[k])[j].slot # Slots(loaded[k])[j].slot

\* C14, as claimed: the path of a loaded module is in the patched set only if
\* an install sweep since the last restore redirected that module's
\* catalog-matching entries, and the paths of the dynamic linker and the vDSO
\* are never in the set.
C14_PatchedSetMeaning ==
    \A k \in DOMAIN loaded :
        loaded[k].dlpi_name \in patched =>
            /\ ~IsLinkerOrVdso(loaded[k])
            /\ loaded[k].patch_count >= 1

\* C15: at every reachable state and for both directions, a sweep gives the
\* same modules and the same patched set whichever pages mprotect refuses; it
\* visits every module; and when a warning is logged a slot on a refused page
\* holds the value that direction writes.
C15_PermissionFailureNonFatal ==
    \A restore_original \in BOOLEAN :
        \A ok \in { sweep({}, restore_original) } :
            /\ ~ok.warn
            /\ \A denied \in Denials : \A bad \in { sweep(denied, restore_original) } :
                /\ bad.mods = ok.mods
                /\ bad.set = ok.set
                /\ Len(bad.mods) = Len(loaded)
                /\ bad.warn =>
                    \E k \in denied : \E j \in Matching(loaded[k]) :
                        Slots(bad.mods[k])[j].slot =
                            IF restore_original
                            THEN SymbolHook(Slots(loaded[k])[j].symname).d_original
                            ELSE intercept_fn(Slots(loaded[k])[j].symname)

\* C15 witness: an install sweep that logged a warning has returned, and slots
\* of the first and of the last module that held lazy-binding stubs hold their
\* trampolines.
C15_Witness ==
    /\ LastOp = "overwrite"
    /\ log_warning
    /\ Len(loaded) >= 2
    /\ \A k \in { 1, Len(loaded) } : \E j \in Matching(loaded[k]) :
        /\ Slots(pre_patch[k])[j].slot = plt_stub(Slots(loaded[k])[j].symname)
        /\ Slots(loaded[k])[j].slot = intercept_fn(Slots(loaded[k])[j].symname)

\* C16: a step leaves the symbol name of every relocation entry and the slot
\* of every entry whose name is not a catalog name as they were, in the three
\* tables; a slot that changes belongs to an entry whose name is a catalog
\* name and receives the trampoline of the hook of that very name when the
\* step is overwrite_symbols() and its captured original when it is
\* restore_symbols().
C16_OnlyMatchingSlots ==
    [][ \A k \in DOMAIN loaded : \A n \in DOMAIN loaded' :
            loaded[k].image = loaded'[n].image =>
                /\ Len(loaded'[n].rel) = Len(loaded[k].rel)
                /\ Len(loaded'[n].rela) = Len(loaded[k].rela)
                /\ Len(loaded'[n].jmprel) = Len(loaded[k].jmprel)
                /\ \A j \in DOMAIN Slots(loaded[k]) :
                    LET old == Slots(loaded[k])[j]
                        new == Slots(loaded'[n])[j]
                    IN  /\ new.symname = old.symname
                        /\ old.symname \notin Catalog => new.slot = old.slot
                        /\ new.slot # old.slot =>
                            \/ /\ LastOp' = "overwrite"
                               /\ new.slot = intercept_fn(old.symname)
                            \/ /\ LastOp' = "restore"
                               /\ new.slot = real_fn(old.symname) ]_vars

\* C16 witness: after an install sweep a module has a redirected slot in each
\* of its three tables next to entries of other symbols that hold what the
\* linker left there.
C16_Witness ==
    /\ LastOp = "overwrite"
    /\ \E k \in DOMAIN loaded :
        /\ \E j \in DOMAIN loaded[k].rel :
            loaded[k].rel[j].slot = intercept_fn("calloc")
        /\ \E j \in DOMAIN loaded[k].rel :
            /\ loaded[k].rel[j].symname = "reallocarray"
            /\ loaded[k].rel[j].slot = real_fn("reallocarray")
        /\ \E j \in DOMAIN loaded[k].rela :
            loaded[k].rela[j].slot = real_fn("memcpy")
        /\ \E j \in DOMAIN loaded[k].jmprel :
            loaded[k].jmprel[j].slot = intercept_fn("dlopen")
    /\ loaded[1].rela[1].slot = intercept_fn("free")

----------------------------------------------------------------------------
(* Properties of the symbol finder *)

\* the modules the callback has been called on
Reported == 1..(query.k - 1)

ReportedEmptyPaths == { i \in Reported : query.mods[i].dlpi_name = "" }

IsVdso(info) == strstr(info.dlpi_name, "linux-vdso.so.1")

\* the module defines the symbol looked up in a dynamic section
Resolves(info) ==
    /\ \E h \in DOMAIN info.dlpi_phdr : info.dlpi_phdr[h] = "PT_DYNAMIC"
    /\ query.result.symbol_name \in info.symtab

\* C17, as claimed: of the modules reported with an empty path the callback
\* examines the first, wherever it is in the enumeration, and no other; it
\* examines every module with a path except the vDSO.
C17_FirstEmptyPathAnywhere ==
    \A i \in Reported :
        i \in query.examined <=>
            IF query.mods[i].dlpi_name = ""
            THEN \A j \in ReportedEmptyPaths : i <= j
            ELSE ~IsVdso(query.mods[i])

\* C17, amended: a module reported with an empty path is examined only when
\* it is the first module of the enumeration; every empty-path module
\* reported later is skipped, even when no empty-path module came before it;
\* the vDSO is skipped; every other module is examined, until one resolves
\* the name, which ends the enumeration with the address found.
C17_EmptyPathOnlyFirstModule ==
    /\ \A i \in Reported :
        i \in query.examined <=>
            IF query.mods[i].dlpi_name = ""
            THEN i = 1
            ELSE ~IsVdso(query.mods[i])
    /\ query.result.maps_visited = query.k - 1
    /\ \A i \in Reported :
        ( i \in query.examined /\ Resolves(query.mods[i]) ) =>
            /\ i = query.k - 1
            /\ query.ret = 1
            /\ query.result.address =
                 getSymbolAddress(query.mods[i], query.result.symbol_name)
    /\ query.ret = 1 =>
        /\ query.k - 1 \in query.examined
        /\ Resolves(query.mods[query.k - 1])
    /\ query.ret = 0 => query.result.address = NULL
    /\ ( query.ret = 0 /\ query.k <= Len(query.mods) ) =>
        ENABLED dl_iterate_phdr_symfind

\* C17 witness: the enumeration reported a module with a path and then one
\* with an empty path that defines the name; the first was examined, the
\* empty-path one was skipped, and a later module resolved the name.
C17_Witness ==
    /\ query.ret = 1
    /\ query.k = 4
    /\ query.mods[1].dlpi_name = "/usr/lib/libc.so.6"
    /\ query.mods[2].dlpi_name = ""
    /\ "malloc" \in query.mods[2].symtab
    /\ query.examined = { 1, 3 }

----------------------------------------------------------------------------
(* Properties of the trampolines: malloc, free and realloc running together *)

\* the real call h of the history released the block at p: a free of p, or a
\* realloc of p that returned a block somewhere else
ReleasesBlock(h, p) ==
    /\ IsReal(h.ev)
    /\ \/ h.ev = RealEvent("free", << p >>, "void")
       \/ /\ h.ev.fn = "realloc"
          /\ h.ev.args[1] = p
          /\ h.ev.res # NULL
          /\ h.ev.res # p

\* the real call h of the history handed out a block at p: a malloc that
\* returned p, or a realloc of another pointer that returned p
HandsOutBlock(h, p) ==
    /\ IsReal(h.ev)
    /\ h.ev.res = p
    /\ \/ h.ev.fn = "malloc"
       \/ h.ev.fn = "realloc" /\ h.ev.args[1] # p

\* C19, as claimed: with threads calling malloc, free and realloc together,
\* when the real allocator hands out an address p that a free or a moving
\* realloc of another call released before, the sink has received the
\* trackDeallocation(p) of the releasing call before the trackAllocation(p) of
\* the call that reuses p.
C19_EventOrder ==
    \A j \in DOMAIN hist :
        (hist[j].ev.e = "sink" /\ hist[j].ev.op = "trackAllocation"
            /\ hist[j].ev.ptr \in HeapAddrs) =>
            LET p == hist[j].ev.ptr
            IN  \A m \in 1..(j - 1) :
                    ( hist[m].t = hist[j].t /\ HandsOutBlock(hist[m], p) ) =>
                        \A i \in 1..(m - 1) :
                            ReleasesBlock(hist[i], p) =>
                                \E k \in 1..(j - 1) :
                                    /\ hist[k].t = hist[i].t
                                    /\ hist[k].ev = trackDeallocation(p, 0, "FREE")

====
